---- MODULE Spec2Model ----
(***************************************************************************)
(* The post scheduling subsystem of content-factory-pro:                   *)
(* app/services/scheduler_service.py (SchedulerService) on top of the      *)
(* APScheduler 3.x BackgroundScheduler it constructs with defaults (memory *)
(* job store, thread-pool executor, misfire_grace_time = 1 s, coalesce,    *)
(* max_instances = 1), the Telegram handler it publishes through, and the  *)
(* retry fields of database/models.py (Schedule).                          *)
(*                                                                         *)
(* Time is counted in ticks of 1/TicksPerSecond second since the epoch     *)
(* Monday 2024-01-01 00:00:00 UTC.  The clock visits the first MaxTick     *)
(* ticks and then the minute marks 1..MaxMinute.                           *)
(***************************************************************************)
EXTENDS Integers, Sequences, FiniteSets, TLC

(* ------------------------------ bounds --------------------------------- *)

\* clock resolution: ticks per second
TicksPerSecond == 2

\* ticks the clock visits after the epoch
MaxTick == 3

\* last minute mark the clock visits
MaxMinute == 1

\* number of service calls (start, shutdown, schedule, cancel) and
\* restarts in a behaviour
MaxCalls == 4

\* last hour mark of the calendar the cron trigger is followed over: twelve
\* weeks from the epoch, past the start of daylight-saving time
MaxHour == 2016

(* ------------------------- program constants --------------------------- *)

\* cron fields have minute resolution (CronTrigger.from_crontab)
SecondsPerMinute == 60

MinutesPerHour == 60

HoursPerDay == 24

DaysPerWeek == 7

\* job defaults of BackgroundScheduler(): misfire_grace_time, max_instances
MisfireGraceSeconds == 1

MaxInstances == 1

\* Schedule.retry_count and Schedule.max_retries column defaults
DefaultRetryCount == 0

DefaultMaxRetries == 3

\* whether the executor of BackgroundScheduler() (a thread pool) runs the
\* body of the coroutine that calling "async def _publish_post" returns:
\* run_job only calls job.func(*args); nothing awaits the coroutine object
CoroutineAwaited == FALSE

TicksPerMinute == SecondsPerMinute * TicksPerSecond

\* the first minute mark after the modelled horizon
Beyond == (MaxMinute + 1) * TicksPerMinute

\* the instants the clock visits: the first ticks, then the minute marks
Instants == (0..MaxTick) \cup { m * TicksPerMinute : m \in 1..MaxMinute }

(* ------------------------------ inputs --------------------------------- *)

Posts == {1, 2}

\* scheduled_time arguments: two instants of second 0 and one of second 1
SchedTimes == {0, 1, TicksPerSecond}

\* (post_id, scheduled_time, chat_id, content, media_urls) arguments of
\* schedule_post; media_urls = None is the empty sequence
ScheduleArgs ==
    { << 1, 0, "@chat_a", "text_a", << >> >>,
      << 1, 1, "@chat_a", "text_a", << "url_1" >> >>,
      << 1, TicksPerSecond, "@chat_a", "text_a", << >> >>,
      << 2, 0, "@chat_b", "text_b", << "url_1", "url_2" >> >> }

\* (post_id, cron_expression, chat_id, content, timezone) arguments of
\* schedule_recurring_post, the expression already split on whitespace
RecurringArgs ==
    { << 1, <<"*", "*", "*", "*", "*">>, "@chat_a", "text_a", "UTC" >>,
      << 1, <<"0", "9", "*", "*", "1">>, "@chat_a", "text_a", "America/New_York" >>,
      << 1, <<"*", "*", "*", "*">>, "@chat_a", "text_a", "UTC" >>,
      << 1, <<"60", "*", "*", "*", "*">>, "@chat_a", "text_a", "America/New_York" >>,
      << 1, <<"*", "*", "*", "*", "*">>, "@chat_a", "text_a", "Mars/Phobos" >> }

\* settings.TELEGRAM_CHANNEL_ID, the channel of the TelegramHandler
ChannelId == "@settings_channel"

(* ------------------------------ job ids -------------------------------- *)

\* "no job": what dict.get would not find, and a trigger's "no fire time"
NoJob == [kind |-> "none", post |-> 0, ts |-> 0 - 1]

NoTime == 0 - 1

\* job_id = f"post_{post_id}_{int(scheduled_time.timestamp())}": the instant
\* is truncated to whole seconds
DateJobId(post_id, scheduled_time) ==
    [kind |-> "post", post |-> post_id, ts |-> scheduled_time \div TicksPerSecond]

\* job_id = f"recurring_post_{post_id}"
RecurringJobId(post_id) ==
    [kind |-> "recurring_post", post |-> post_id, ts |-> NoTime]

DateJobIds == { DateJobId(a[1], a[2]) : a \in ScheduleArgs }

JobIds == DateJobIds \cup { RecurringJobId(a[1]) : a \in RecurringArgs }

\* the order of the id strings "post_<p>_<ts>" and "recurring_post_<p>"
\* (one-digit post ids and timestamps)
IdLess(a, b) ==
    \/ a.kind = "post" /\ b.kind = "recurring_post"
    \/ a.kind = b.kind /\ a.post < b.post
    \/ a.kind = b.kind /\ a.post = b.post /\ a.ts < b.ts

(* --------------------------- cron and timezone ------------------------- *)

IsNumber(tok) == tok \in {"0", "1", "9", "60"}

\* int(tok) of a numeric field
NumOf(tok) ==
    CASE tok = "0" -> 0
      [] tok = "1" -> 1
      [] tok = "9" -> 9
      [] tok = "60" -> 60

\* the value ranges of the five crontab fields: minute, hour, day, month,
\* day_of_week
FieldRange ==
    << [lo |-> 0, hi |-> MinutesPerHour - 1],
       [lo |-> 0, hi |-> HoursPerDay - 1],
       [lo |-> 1, hi |-> 31],
       [lo |-> 1, hi |-> 12],
       [lo |-> 0, hi |-> DaysPerWeek - 1] >>

FieldValid(tok, i) ==
    \/ tok = "*"
    \/ /\ IsNumber(tok)
       /\ FieldRange[i].lo <= NumOf(tok)
       /\ NumOf(tok) <= FieldRange[i].hi

\* from_crontab checking the number of fields only
CronValidFieldCountOnly(expr) == Len(expr) = 5

\* CronTrigger.from_crontab(expr): ValueError unless there are five fields,
\* each of them an expression within its range
CronValid(expr) ==
    /\ Len(expr) = 5
    /\ \A i \in 1..5 : FieldValid(expr[i], i)

\* pytz.timezone(name): UnknownTimeZoneError unless the name is a zone
TimezoneKnown(name) == name \in {"UTC", "America/New_York"}

\* the days of the months of 2024
MonthLengths == << 31, 29, 31, 30, 31, 30, 31, 31, 30, 31, 30, 31 >>

\* daylight-saving time of America/New_York in 2024, in minutes after the
\* epoch: from the 10th of March 07:00 UTC to the 3rd of November 06:00 UTC
DstStartMinute == ((31 + 29 + 9) * HoursPerDay + 7) * MinutesPerHour

DstEndMinute == ((305 + 2) * HoursPerDay + 6) * MinutesPerHour

\* UTC offset, in minutes, of the zone at the instant m minutes after the
\* epoch
UtcOffsetMinutes(name, m) ==
    CASE name = "UTC" -> 0
      [] name = "America/New_York" ->
            IF DstStartMinute <= m /\ m < DstEndMinute
            THEN 0 - 4 * MinutesPerHour
            ELSE 0 - 5 * MinutesPerHour

\* month and day of the month of the day d days after the first of month mo
RECURSIVE MonthDay(_, _)
MonthDay(d, mo) ==
    IF d < MonthLengths[mo] THEN [month |-> mo, day |-> d + 1]
    ELSE MonthDay(d - MonthLengths[mo], mo + 1)

\* the wall clock of the zone, m minutes after the epoch (a Monday, the
\* first of January 2024); days before the epoch are the last of December;
\* weekdays are numbered as datetime.weekday() does, Monday = 0
WallClock(m, tz) ==
    LET lm == m + UtcOffsetMinutes(tz, m)
        day == lm \div (HoursPerDay * MinutesPerHour)
        inDay == lm % (HoursPerDay * MinutesPerHour)
        md == IF day < 0 THEN [month |-> 12, day |-> 32 + day]
              ELSE MonthDay(day, 1)
    IN  [minute |-> inDay % MinutesPerHour,
         hour |-> inDay \div MinutesPerHour,
         day |-> md.day,
         month |-> md.month,
         day_of_week |-> day % DaysPerWeek]

FieldMatches(tok, v) == tok = "*" \/ NumOf(tok) = v

\* the trigger fires in the minute m after the epoch (at second 0); the
\* weekday numbers of CronTrigger start at Monday = 0
CronMatches(expr, tz, m) ==
    LET w == WallClock(m, tz)
    IN  /\ FieldMatches(expr[1], w.minute)
        /\ FieldMatches(expr[2], w.hour)
        /\ FieldMatches(expr[3], w.day)
        /\ FieldMatches(expr[4], w.month)
        /\ FieldMatches(expr[5], w.day_of_week)

SetMin(S) == CHOOSE x \in S : \A y \in S : x <= y

\* CronTrigger.get_next_fire_time over the instants `marks`: the first of
\* them at or after `start` the trigger fires at, `beyond` when there is none
CronNextFireIn(expr, tz, start, marks, beyond) ==
    LET later == { t \in marks :
                     t >= start /\ CronMatches(expr, tz, t \div TicksPerMinute) }
    IN  IF later = {} THEN beyond ELSE SetMin(later)

\* CronTrigger.get_next_fire_time: the first fire time at or after `start`,
\* Beyond when it lies after the modelled horizon
CronNextFire(expr, tz, start) ==
    CronNextFireIn(expr, tz, start,
                   { m * TicksPerMinute : m \in 0..MaxMinute }, Beyond)

\* trigger.get_next_fire_time(previous_fire_time, now).  DateTrigger: the
\* run_date once, then None.  CronTrigger: the first fire time after the
\* previous one, or at or after now when there was none.
GetNextFireTime(job, previous_fire_time, t) ==
    IF job.kind = "date"
    THEN IF previous_fire_time = NoTime THEN job.run_date ELSE NoTime
    ELSE CronNextFire(job.cron, job.tz,
                      IF previous_fire_time = NoTime THEN t ELSE previous_fire_time + 1)

(* ------------------------------- state --------------------------------- *)

VARIABLES
    now,            \* the wall clock, in ticks
    state,          \* scheduler.state: "stopped" or "running"
    pool_shutdown,  \* the executor's thread pool has been shut down
    pending_jobs,   \* scheduler._pending_jobs: jobs added before start()
    store,          \* the memory job store, sorted by (next_run_time, id)
    instances,      \* executor._instances: running instances per job id
    inflight,       \* runs submitted to the thread pool and not yet finished
    svc_jobs,       \* SchedulerService._jobs: post_id -> job_id
    events,         \* the scheduler's job events, counted per job id
    sent,           \* per job id: deliver calls received by the Telegram
                    \* API (calls), those of them that succeeded (ok), and
                    \* the request of the last one (last)
    ret,            \* the last service call and what it returned
    calls,          \* number of service calls so far
    late,           \* job id -> its last registration lay in the past
    term,           \* job id -> cancelled or run to its end since registered
    cancelled,      \* post -> its last schedule or cancel call was a cancel
                    \* that returned True
    users,          \* the users table: user id -> is_admin, is_active
    request,        \* the last call to the API, the admin dependency or
                    \* the analytics service
    response,       \* what that call answered
    telegram,       \* the last request of the API's TelegramHandler, the
                    \* Telegram API's answer and what the handler returned
    metrics_cache   \* AnalyticsService._metrics_cache

scheduler_vars ==
    << now, state, pool_shutdown, pending_jobs, store, instances, inflight,
       svc_jobs, events, sent, ret, calls, late, term, cancelled >>

api_vars == << users, request, response, telegram, metrics_cache >>

vars ==
    << now, state, pool_shutdown, pending_jobs, store, instances, inflight,
       svc_jobs, events, sent, ret, calls, late, term, cancelled,
       users, request, response, telegram, metrics_cache >>

\* counts of EVENT_JOB_SUBMITTED, _EXECUTED, _ERROR, _MISSED and
\* _MAX_INSTANCES (or a refused submission)
NoEvents ==
    [submitted |-> 0, executed |-> 0, error |-> 0, missed |-> 0, rejected |-> 0]

\* no request has reached the Telegram API
NoCall == [method |-> "none", chat_id |-> "", text |-> "", parse_mode |-> ""]

\* the ids of the users table
UserIds == { "user_1", "user_2", "user_3" }

\* User.is_admin and User.is_active of a new row
DefaultUser == [is_admin |-> FALSE, is_active |-> TRUE]

NoRequest == [op |-> "none"]

NoResponse == [status |-> 0]

\* the API's handler has sent nothing
NoTelegram ==
    [data |-> NoCall, answer |-> [raised |-> FALSE, status |-> 0], returned |-> FALSE]

\* AnalyticsService.__init__: an empty cache; no API call yet
ApiInit ==
    /\ users = [u \in UserIds |-> DefaultUser]
    /\ request = NoRequest
    /\ response = NoResponse
    /\ telegram = NoTelegram
    /\ metrics_cache = << >>

\* SchedulerService.__init__: a stopped scheduler, no jobs
SchedulerInit ==
    /\ now = 0
    /\ state = "stopped"
    /\ pool_shutdown = FALSE
    /\ pending_jobs = << >>
    /\ store = << >>
    /\ instances = [j \in JobIds |-> 0]
    /\ inflight = {}
    /\ svc_jobs = [p \in Posts |-> NoJob]
    /\ events = [j \in JobIds |-> NoEvents]
    /\ sent = [j \in JobIds |-> [calls |-> 0, ok |-> 0, last |-> NoCall]]
    /\ ret = [op |-> "init", post |-> 0, val |-> "none"]
    /\ calls = 0
    /\ late = [j \in JobIds |-> FALSE]
    /\ term = [j \in JobIds |-> FALSE]
    /\ cancelled = [p \in Posts |-> FALSE]

Init == SchedulerInit /\ ApiInit

(* ----------------------------- job store ------------------------------- *)

SeqIds(s) == { s[i].id : i \in 1..Len(s) }

Scheduled(id) == id \in SeqIds(store) \cup SeqIds(pending_jobs)

\* MemoryJobStore keeps its jobs sorted by (next_run_time, job id)
Before(a, b) ==
    \/ a.next_run_time < b.next_run_time
    \/ a.next_run_time = b.next_run_time /\ IdLess(a.id, b.id)

\* MemoryJobStore.remove_job
StoreRemove(s, id) == SelectSeq(s, LAMBDA j : j.id # id)

\* a job store adding every job at its end
StoreInsertAppend(s, job) == Append(s, job)

\* MemoryJobStore.add_job: insertion at the job's place in the order
StoreInsert(s, job) ==
    SelectSeq(s, LAMBDA j : Before(j, job)) \o << job >>
        \o SelectSeq(s, LAMBDA j : ~Before(j, job))

\* scheduler._real_add_job with replace_existing=True: the first fire
\* time is computed, and a job of the same id is updated in place of a
\* second one being added
RealAddJob(s, job, t) ==
    LET j == [job EXCEPT !.next_run_time = GetNextFireTime(job, NoTime, t)]
    IN  StoreInsert(StoreRemove(s, j.id), j)

\* scheduler.start(): every pending job is really added, in order
RECURSIVE AddPending(_, _, _)
AddPending(s, pend, t) ==
    IF pend = << >> THEN s
    ELSE AddPending(RealAddJob(s, Head(pend), t), Tail(pend), t)

\* scheduler.add_job(..., replace_existing=True): tentative while the
\* scheduler is stopped, really added while it runs
AddJob(job) ==
    IF state = "stopped"
    THEN /\ pending_jobs' = Append(pending_jobs, job)
         /\ store' = store
    ELSE /\ store' = RealAddJob(store, job, now)
         /\ pending_jobs' = pending_jobs

\* index of the first pending job with the id, 0 if there is none
FirstPending(id) ==
    IF id \in SeqIds(pending_jobs)
    THEN SetMin({ i \in 1..Len(pending_jobs) : pending_jobs[i].id = id })
    ELSE 0

DropAt(s, i) == SubSeq(s, 1, i - 1) \o SubSeq(s, i + 1, Len(s))

\* scheduler.remove_job(job_id) finds the job: among the pending jobs while
\* the scheduler is stopped, in the job store while it runs
RemoveFinds(id) ==
    IF state = "stopped" THEN id \in SeqIds(pending_jobs) ELSE id \in SeqIds(store)

\* scheduler.remove_job(job_id), when it finds the job: the first pending
\* job of that id, or the stored job, is removed
RemoveJob(id) ==
    IF state = "stopped"
    THEN /\ pending_jobs' = DropAt(pending_jobs, FirstPending(id))
         /\ store' = store
    ELSE /\ store' = StoreRemove(store, id)
         /\ pending_jobs' = pending_jobs

(* --------------------------- SchedulerService -------------------------- *)

\* the job of schedule_post: args=[post_id, chat_id, content, media_urls]
DateJob(post_id, scheduled_time, chat_id, content, media_urls) ==
    [id |-> DateJobId(post_id, scheduled_time), kind |-> "date",
     run_date |-> scheduled_time, cron |-> << >>, tz |-> "",
     next_run_time |-> NoTime, post_id |-> post_id,
     chat_id |-> chat_id, content |-> content, media_urls |-> media_urls]

\* the job of schedule_recurring_post: args=[post_id, chat_id, content, None]
CronJob(post_id, cron_expression, chat_id, content, timezone) ==
    [id |-> RecurringJobId(post_id), kind |-> "cron",
     run_date |-> NoTime, cron |-> cron_expression, tz |-> timezone,
     next_run_time |-> NoTime, post_id |-> post_id,
     chat_id |-> chat_id, content |-> content, media_urls |-> << >>]

\* SchedulerService.start
Start ==
    /\ calls < MaxCalls
    /\ IF state = "stopped"
       THEN /\ store' = AddPending(store, pending_jobs, now)
            /\ pending_jobs' = << >>
            /\ state' = "running"
       ELSE UNCHANGED << store, pending_jobs, state >>
    /\ ret' = [op |-> "start", post |-> 0, val |-> "none"]
    /\ calls' = calls + 1
    /\ UNCHANGED << api_vars, now, pool_shutdown, instances, inflight, svc_jobs, events,
                    sent, late, term, cancelled >>

\* SchedulerService.schedule_post
SchedulePost(post_id, scheduled_time, chat_id, content, media_urls) ==
    LET job == DateJob(post_id, scheduled_time, chat_id, content, media_urls)
    IN  /\ calls < MaxCalls
        /\ AddJob(job)
        /\ svc_jobs' = [svc_jobs EXCEPT ![post_id] = job.id]
        /\ ret' = [op |-> "schedule_post", post |-> post_id, val |-> "ok"]
        /\ calls' = calls + 1
        /\ late' = [late EXCEPT ![job.id] = scheduled_time < now]
        /\ term' = [term EXCEPT ![job.id] = FALSE]
        /\ cancelled' = [cancelled EXCEPT ![post_id] = FALSE]
        /\ UNCHANGED << api_vars, now, state, pool_shutdown, instances, inflight, events, sent >>

\* what building the trigger of schedule_recurring_post raises, if anything:
\* pytz.timezone(timezone) is evaluated first, then CronTrigger.from_crontab
TriggerError(cron_expression, timezone) ==
    IF ~TimezoneKnown(timezone) THEN "UnknownTimeZoneError"
    ELSE IF ~CronValid(cron_expression) THEN "ValueError"
    ELSE "ok"

\* SchedulerService.schedule_recurring_post
ScheduleRecurringPost(post_id, cron_expression, chat_id, content, timezone) ==
    LET err == TriggerError(cron_expression, timezone)
        job == CronJob(post_id, cron_expression, chat_id, content, timezone)
    IN  /\ calls < MaxCalls
        /\ calls' = calls + 1
        /\ IF err = "ok"
           THEN /\ AddJob(job)
                /\ svc_jobs' = [svc_jobs EXCEPT ![post_id] = job.id]
                /\ ret' = [op |-> "schedule_recurring_post", post |-> post_id, val |-> "ok"]
                /\ term' = [term EXCEPT ![job.id] = FALSE]
                /\ cancelled' = [cancelled EXCEPT ![post_id] = FALSE]
           ELSE /\ ret' = [op |-> "schedule_recurring_post", post |-> post_id, val |-> err]
                /\ UNCHANGED << pending_jobs, store, svc_jobs, term, cancelled >>
        /\ UNCHANGED << api_vars, now, state, pool_shutdown, instances, inflight, events,
                        sent, late >>

\* cancel_scheduled_post dropping its entry and returning True although
\* remove_job raised JobLookupError
CancelIgnoringLookupError(post_id) ==
    LET job_id == svc_jobs[post_id]
    IN  /\ calls < MaxCalls
        /\ calls' = calls + 1
        /\ IF job_id # NoJob
           THEN /\ IF RemoveFinds(job_id) THEN RemoveJob(job_id)
                   ELSE UNCHANGED << pending_jobs, store >>
                /\ svc_jobs' = [svc_jobs EXCEPT ![post_id] = NoJob]
                /\ ret' = [op |-> "cancel_scheduled_post", post |-> post_id, val |-> "True"]
                /\ term' = [term EXCEPT ![job_id] = TRUE]
                /\ cancelled' = [cancelled EXCEPT ![post_id] = TRUE]
           ELSE /\ ret' = [op |-> "cancel_scheduled_post", post |-> post_id, val |-> "False"]
                /\ UNCHANGED << pending_jobs, store, svc_jobs, term, cancelled >>
        /\ UNCHANGED << api_vars, now, state, pool_shutdown, instances, inflight, events,
                        sent, late >>

\* cancel_scheduled_post deleting the post's entry before remove_job, so
\* that the entry is gone when remove_job raises
CancelDroppingEntryFirst(post_id) ==
    LET job_id == svc_jobs[post_id]
    IN  /\ calls < MaxCalls
        /\ calls' = calls + 1
        /\ svc_jobs' = [svc_jobs EXCEPT ![post_id] = NoJob]
        /\ IF job_id # NoJob /\ RemoveFinds(job_id)
           THEN /\ RemoveJob(job_id)
                /\ ret' = [op |-> "cancel_scheduled_post", post |-> post_id, val |-> "True"]
                /\ term' = [term EXCEPT ![job_id] = TRUE]
                /\ cancelled' = [cancelled EXCEPT ![post_id] = TRUE]
           ELSE /\ ret' = [op |-> "cancel_scheduled_post", post |-> post_id, val |-> "False"]
                /\ UNCHANGED << pending_jobs, store, term, cancelled >>
        /\ UNCHANGED << api_vars, now, state, pool_shutdown, instances, inflight, events,
                        sent, late >>

\* SchedulerService.cancel_scheduled_post
CancelScheduledPost(post_id) ==
    LET job_id == svc_jobs[post_id]
    IN  /\ calls < MaxCalls
        /\ calls' = calls + 1
        /\ IF job_id # NoJob /\ RemoveFinds(job_id)
           THEN /\ RemoveJob(job_id)
                /\ svc_jobs' = [svc_jobs EXCEPT ![post_id] = NoJob]
                /\ ret' = [op |-> "cancel_scheduled_post", post |-> post_id, val |-> "True"]
                /\ term' = [term EXCEPT ![job_id] = TRUE]
                /\ cancelled' = [cancelled EXCEPT ![post_id] = TRUE]
           ELSE \* not in _jobs, or remove_job raised JobLookupError
                /\ ret' = [op |-> "cancel_scheduled_post", post |-> post_id, val |-> "False"]
                /\ UNCHANGED << pending_jobs, store, svc_jobs, term, cancelled >>
        /\ UNCHANGED << api_vars, now, state, pool_shutdown, instances, inflight, events,
                        sent, late >>

(* ----------------------- scheduler and executor ------------------------ *)

SetMax(S) == CHOOSE x \in S : \A y \in S : y <= x

\* job._get_run_times(now), coalesced to the last one: the latest fire time
\* of the job from its next_run_time up to t
LastRunTime(job, t) ==
    IF job.kind = "date" THEN job.next_run_time
    ELSE SetMax({ job.next_run_time } \cup
                { f \in { m * TicksPerMinute : m \in 0..MaxMinute } :
                    /\ f >= job.next_run_time
                    /\ f <= t
                    /\ CronMatches(job.cron, job.tz, f \div TicksPerMinute) })

\* executor.submit_job accepts the run: the pool takes work and the job has
\* fewer than max_instances running instances
SubmitAccepted(inst, job) ==
    ~pool_shutdown /\ inst[job.id] < MaxInstances

\* one due job of scheduler._process_jobs: it is submitted to the executor
\* (or the submission is refused and logged), then it is updated to its
\* next fire time, or removed from the store when it has none
ProcessOne(st, job, t) ==
    LET last == LastRunTime(job, t)
        ok == SubmitAccepted(st.instances, job)
        next == GetNextFireTime(job, last, t)
        ev == st.events[job.id]
    IN  [store |-> IF next # NoTime
                   THEN StoreInsert(StoreRemove(st.store, job.id),
                                    [job EXCEPT !.next_run_time = next])
                   ELSE StoreRemove(st.store, job.id),
         instances |-> IF ok THEN [st.instances EXCEPT ![job.id] = @ + 1]
                       ELSE st.instances,
         inflight |-> IF ok THEN st.inflight \cup { [job |-> job, run_time |-> last] }
                      ELSE st.inflight,
         events |-> [st.events EXCEPT ![job.id] =
                        IF ok THEN [ev EXCEPT !.submitted = @ + 1]
                        ELSE [ev EXCEPT !.rejected = @ + 1]]]

RECURSIVE ProcessDue(_, _, _)
ProcessDue(st, due, t) ==
    IF due = << >> THEN st
    ELSE ProcessDue(ProcessOne(st, Head(due), t), Tail(due), t)

\* jobstore.get_due_jobs(now)
DueJobs(s, t) == SelectSeq(s, LAMBDA j : j.next_run_time <= t)

\* scheduler._process_jobs, one wake-up of the scheduler thread with due jobs
ProcessJobs ==
    /\ state = "running"
    /\ DueJobs(store, now) # << >>
    /\ LET st == ProcessDue([store |-> store, instances |-> instances,
                             inflight |-> inflight, events |-> events],
                            DueJobs(store, now), now)
       IN  /\ store' = st.store
           /\ instances' = st.instances
           /\ inflight' = st.inflight
           /\ events' = st.events
    /\ UNCHANGED << api_vars, now, state, pool_shutdown, pending_jobs, svc_jobs, sent, ret,
                    calls, late, term, cancelled >>

\* run_job's misfire check: the run is dropped when it starts more than
\* misfire_grace_time after its run time
Missed(run, t) == t - run.run_time > MisfireGraceSeconds * TicksPerSecond

\* what the Telegram API answers to one deliver call
SinkResults == {"ok", "transient", "permanent"}

\* TelegramHandler.send_message(text, parse_mode): the request it posts
SendMessage(text, parse_mode) ==
    [method |-> "sendMessage", chat_id |-> ChannelId, text |-> text,
     parse_mode |-> parse_mode]

\* job.func(*job.args) = _publish_post(post_id, chat_id, content, media_urls)
\* in run_job: the deliver calls it makes, those that succeed, the request
\* of the last one, and whether it raises.  When its body runs: with media
\* urls self.telegram_handler.send_media does not exist (AttributeError,
\* logged and raised again); without, send_message(chat_id, content) is
\* awaited and the bool it returns is dropped.
PublishPost(run, result) ==
    IF ~CoroutineAwaited
    THEN [calls |-> 0, ok |-> 0, last |-> NoCall, raised |-> FALSE]
    ELSE IF run.job.media_urls # << >>
    THEN [calls |-> 0, ok |-> 0, last |-> NoCall, raised |-> TRUE]
    ELSE [calls |-> 1, ok |-> IF result = "ok" THEN 1 ELSE 0,
          last |-> SendMessage(run.job.chat_id, run.job.content),
          raised |-> FALSE]

\* the events after the runs in `runs` have gone through run_job at time t,
\* the deliver calls answering `result`
EventsAfter(runs, t, result) ==
    [j \in JobIds |->
        LET mine == { r \in runs : r.job.id = j }
            lost == { r \in mine : Missed(r, t) }
            failed == { r \in mine \ lost : PublishPost(r, result).raised }
        IN  [events[j] EXCEPT
                !.missed = @ + Cardinality(lost),
                !.error = @ + Cardinality(failed),
                !.executed = @ + Cardinality(mine) - Cardinality(lost)
                                - Cardinality(failed)]]

\* the deliver calls after the runs in `runs` have gone through run_job
SentAfter(runs, t, result) ==
    [j \in JobIds |->
        LET called == { r \in runs : r.job.id = j /\ ~Missed(r, t) }
            made == { r \in called : PublishPost(r, result).calls > 0 }
            RECURSIVE Sum(_, _)
            Sum(S, f) == IF S = {} THEN 0
                         ELSE LET r == CHOOSE x \in S : TRUE
                              IN  PublishPost(r, result)[f] + Sum(S \ {r}, f)
        IN  [calls |-> sent[j].calls + Sum(called, "calls"),
             ok |-> sent[j].ok + Sum(called, "ok"),
             last |-> IF made = {} THEN sent[j].last
                      ELSE PublishPost(CHOOSE r \in made : TRUE, result).last]]

\* a one-shot job whose run has ended and that is not scheduled again has
\* reached its end
TermAfter(runs, scheduledIds) ==
    [j \in JobIds |->
        \/ term[j]
        \/ /\ j.kind = "post"
           /\ j \notin scheduledIds
           /\ \E r \in runs : r.job.id = j]

\* run_job in a pool thread, and the executor's bookkeeping when it returns
RunJob(run, result) ==
    /\ run \in inflight
    /\ inflight' = inflight \ { run }
    /\ instances' = [instances EXCEPT ![run.job.id] = @ - 1]
    /\ events' = EventsAfter({ run }, now, result)
    /\ sent' = SentAfter({ run }, now, result)
    /\ term' = TermAfter({ run }, SeqIds(store) \cup SeqIds(pending_jobs))
    /\ UNCHANGED << api_vars, now, state, pool_shutdown, pending_jobs, store, svc_jobs, ret,
                    calls, late, cancelled >>

\* shutdown without its test of scheduler.running: scheduler.shutdown()
\* raises SchedulerNotRunningError on a stopped scheduler
ShutdownUnguarded ==
    /\ calls < MaxCalls
    /\ calls' = calls + 1
    /\ IF state = "running"
       THEN /\ ret' = [op |-> "shutdown", post |-> 0, val |-> "none"]
            /\ state' = "stopped"
            /\ pool_shutdown' = TRUE
            /\ store' = << >>
            /\ inflight' = {}
            /\ instances' = [j \in JobIds |-> 0]
            /\ \E result \in SinkResults :
                  /\ events' = EventsAfter(inflight, now, result)
                  /\ sent' = SentAfter(inflight, now, result)
            /\ term' = TermAfter(inflight, SeqIds(pending_jobs))
       ELSE /\ ret' = [op |-> "shutdown", post |-> 0,
                       val |-> "SchedulerNotRunningError"]
            /\ UNCHANGED << state, pool_shutdown, store, inflight, instances,
                            events, sent, term >>
    /\ UNCHANGED << api_vars, now, pending_jobs, svc_jobs, late, cancelled >>

\* SchedulerService.shutdown: scheduler.shutdown(wait=True) stops the
\* scheduler, waits for the running jobs, shuts the pool down and empties
\* the memory job store
Shutdown ==
    /\ calls < MaxCalls
    /\ calls' = calls + 1
    /\ ret' = [op |-> "shutdown", post |-> 0, val |-> "none"]
    /\ IF state = "running"
       THEN /\ state' = "stopped"
            /\ pool_shutdown' = TRUE
            /\ store' = << >>
            /\ inflight' = {}
            /\ instances' = [j \in JobIds |-> 0]
            /\ \E result \in SinkResults :
                  /\ events' = EventsAfter(inflight, now, result)
                  /\ sent' = SentAfter(inflight, now, result)
            /\ term' = TermAfter(inflight, SeqIds(pending_jobs))
       ELSE UNCHANGED << state, pool_shutdown, store, inflight, instances, events,
                         sent, term >>
    /\ UNCHANGED << api_vars, now, pending_jobs, svc_jobs, late, cancelled >>

\* the process ends (a crash or a kill) and a new one constructs the
\* service again: SchedulerService.__init__ builds a new BackgroundScheduler
\* with an empty memory job store and an empty _jobs; the runs in flight die
\* with their threads.  What the scheduler and the Telegram API have seen
\* so far stays seen.
Restart ==
    /\ calls < MaxCalls
    /\ calls' = calls + 1
    /\ ret' = [op |-> "restart", post |-> 0, val |-> "none"]
    /\ state' = "stopped"
    /\ pool_shutdown' = FALSE
    /\ pending_jobs' = << >>
    /\ store' = << >>
    /\ instances' = [j \in JobIds |-> 0]
    /\ inflight' = {}
    /\ svc_jobs' = [p \in Posts |-> NoJob]
    /\ UNCHANGED << api_vars, now, events, sent, late, term, cancelled >>

\* SchedulerService.get_scheduled_jobs: scheduler.get_jobs() gives the
\* pending jobs while the scheduler is stopped and the stored ones while it
\* runs; a pending job has no next_run_time attribute yet, so reading it
\* raises AttributeError.  Each entry has name, next_run_time and trigger.
GetScheduledJobs ==
    [raised |-> state = "stopped" /\ pending_jobs # << >>,
     jobs |-> IF state = "stopped" THEN {}
              ELSE { [id |-> store[i].id,
                      name |-> << IF store[i].kind = "date" THEN "Publish post"
                                  ELSE "Recurring post", store[i].post_id >>,
                      next_run_time |-> store[i].next_run_time,
                      trigger |-> store[i].kind] : i \in 1..Len(store) }]

\* the wall clock moves to the next modelled instant
AdvanceClock ==
    /\ \E t \in Instants : t > now
    /\ now' = SetMin({ t \in Instants : t > now })
    /\ UNCHANGED << api_vars, state, pool_shutdown, pending_jobs, store, instances, inflight,
                    svc_jobs, events, sent, ret, calls, late, term, cancelled >>

Next ==
    \/ Start
    \/ Shutdown
    \/ Restart
    \/ \E a \in ScheduleArgs : SchedulePost(a[1], a[2], a[3], a[4], a[5])
    \/ \E a \in RecurringArgs : ScheduleRecurringPost(a[1], a[2], a[3], a[4], a[5])
    \/ \E p \in Posts : CancelScheduledPost(p)
    \/ ProcessJobs
    \/ \E r \in inflight, result \in SinkResults : RunJob(r, result)
    \/ AdvanceClock

Spec == Init /\ [][Next]_vars

(* ------------------- the cron trigger over the weeks ------------------- *)

\* the instants the cron trigger is followed over: the whole hours of the
\* first MaxHour hours after the epoch
HourMarks == { h * MinutesPerHour * TicksPerMinute : h \in 0..MaxHour }

HourBeyond == (MaxHour + 1) * MinutesPerHour * TicksPerMinute

\* (cron_expression, timezone) of the recurring jobs followed
CronCases ==
    { << <<"0", "9", "*", "*", "1">>, "America/New_York" >>,
      << <<"0", "9", "*", "*", "*">>, "America/New_York" >>,
      << <<"0", "9", "*", "*", "1">>, "UTC" >> }

\* the instants of registration: the epoch, and Tuesday the 2nd of January
\* 15:00 UTC
CronStarts == { 0, (HoursPerDay + 15) * MinutesPerHour * TicksPerMinute }

\* a running service right after schedule_recurring_post(1, ...) returned
InitCron ==
    /\ now \in CronStarts
    /\ state = "running"
    /\ pool_shutdown = FALSE
    /\ pending_jobs = << >>
    /\ \E c \in CronCases :
          store = << [CronJob(1, c[1], "@chat_a", "text_a", c[2]) EXCEPT
                        !.next_run_time =
                            CronNextFireIn(c[1], c[2], now, HourMarks, HourBeyond)] >>
    /\ instances = [j \in JobIds |-> 0]
    /\ inflight = {}
    /\ svc_jobs = [p \in Posts |-> IF p = 1 THEN RecurringJobId(1) ELSE NoJob]
    /\ events = [j \in JobIds |-> NoEvents]
    /\ sent = [j \in JobIds |-> [calls |-> 0, ok |-> 0, last |-> NoCall]]
    /\ ret = [op |-> "schedule_recurring_post", post |-> 1, val |-> "ok"]
    /\ calls = 2
    /\ late = [j \in JobIds |-> FALSE]
    /\ term = [j \in JobIds |-> FALSE]
    /\ cancelled = [p \in Posts |-> FALSE]
    /\ ApiInit

\* the scheduler thread sleeps until the recurring job is due and wakes:
\* _process_jobs submits the run and moves the job to the trigger's next
\* fire time, and the run ends in its pool thread
CronWake ==
    /\ state = "running"
    /\ Len(store) = 1
    /\ store[1].kind = "cron"
    /\ store[1].next_run_time >= now
    /\ store[1].next_run_time < HourBeyond
    /\ now' = store[1].next_run_time
    /\ store' = << [store[1] EXCEPT
                      !.next_run_time =
                          CronNextFireIn(store[1].cron, store[1].tz,
                                         store[1].next_run_time + 1,
                                         HourMarks, HourBeyond)] >>
    /\ events' = [events EXCEPT ![store[1].id] =
                     [@ EXCEPT !.submitted = @ + 1, !.executed = @ + 1]]
    /\ UNCHANGED << api_vars, state, pool_shutdown, pending_jobs, instances, inflight,
                    svc_jobs, sent, ret, calls, late, term, cancelled >>

NextCron == CronWake

SpecCron == InitCron /\ [][NextCron]_vars

(* ------------------------- the admin dependency ------------------------ *)

\* get_current_admin(current_user): current_user is what get_current_user
\* returned for the request's token, the id of an authenticated user; the
\* dependency logs the access and returns it
GetCurrentAdmin(current_user) ==
    /\ request' = [op |-> "get_current_admin", current_user |-> current_user]
    /\ response' = [status |-> 200, returned |-> current_user]
    /\ UNCHANGED << scheduler_vars, users, telegram, metrics_cache >>

\* any rows of the users table
InitAuth ==
    /\ SchedulerInit
    /\ users \in [UserIds -> [is_admin : BOOLEAN, is_active : BOOLEAN]]
    /\ request = NoRequest
    /\ response = NoResponse
    /\ telegram = NoTelegram
    /\ metrics_cache = << >>

NextAuth == \E u \in UserIds : GetCurrentAdmin(u)

SpecAuth == InitAuth /\ [][NextAuth]_vars

(* ------------------------ POST /content/publish ------------------------ *)

\* Python's None
None == "<None>"

\* the truth value of an Optional[str]
Truthy(x) == x # None /\ x # ""

\* a or b
PyOr(a, b) == IF Truthy(a) THEN a ELSE b

\* bodies of PublishContentRequest
PublishRequests ==
    { [content |-> c, caption |-> cap, media_url |-> m, parse_mode |-> pm] :
        c \in { "", "text_a", "text_b" },
        cap \in { None, "caption_a" },
        m \in { None, "", "url_1" },
        pm \in { "HTML", "Markdown", "MarkdownV2" } }

\* what session.post comes to: an answer with a status, or an exception
TelegramAnswers ==
    { [raised |-> FALSE, status |-> 200],
      [raised |-> FALSE, status |-> 400],
      [raised |-> FALSE, status |-> 429],
      [raised |-> TRUE, status |-> 0] }

\* the request telegram_handler.send_photo(photo_url, caption, parse_mode)
\* posts to the Telegram API
SendPhoto(photo_url, caption, parse_mode) ==
    [method |-> "sendPhoto", chat_id |-> ChannelId, photo |-> photo_url,
     caption |-> caption, parse_mode |-> parse_mode]

\* what send_message and send_photo return: True on status 200, False on
\* any other status and on any exception
HandlerReturns(answer) == ~answer.raised /\ answer.status = 200

\* an endpoint answering success whatever the handler returned
PublishResponseAlwaysSuccess(success) ==
    [status |-> 200, success |-> TRUE, message |-> "Content published successfully",
     published_at |-> now]

\* the endpoint after the handler's call: HTTPException(500) raised on a
\* false result, caught by the endpoint's except branch and raised again as
\* HTTPException(500); PublishContentResponse(success=True) otherwise
PublishResponse(success) ==
    IF success
    THEN [status |-> 200, success |-> TRUE,
          message |-> "Content published successfully", published_at |-> now]
    ELSE [status |-> 500, success |-> FALSE,
          message |-> "Publishing failed: Failed to publish to Telegram",
          published_at |-> NoTime]

\* publish_content_endpoint; a body whose content is shorter than
\* min_length is answered 422 before the endpoint runs
PublishContentEndpoint(body, answer) ==
    /\ request' = [op |-> "publish_content", body |-> body]
    /\ IF body.content = ""
       THEN /\ response' = [status |-> 422, success |-> FALSE,
                            message |-> "validation error", published_at |-> NoTime]
            /\ telegram' = NoTelegram
       ELSE LET data ==
                    IF Truthy(body.media_url)
                    THEN SendPhoto(body.media_url,
                                   PyOr(body.content, body.caption),
                                   body.parse_mode)
                    ELSE SendMessage(body.content, body.parse_mode)
                success == HandlerReturns(answer)
            IN  /\ telegram' = [data |-> data, answer |-> answer, returned |-> success]
                /\ response' = PublishResponse(success)
    /\ UNCHANGED << scheduler_vars, users, metrics_cache >>

NextPublish ==
    \E body \in PublishRequests, answer \in TelegramAnswers :
        PublishContentEndpoint(body, answer)

SpecPublish == Init /\ [][NextPublish]_vars

(* -------------------------- analytics service -------------------------- *)

MaxEntries == 3

\* the values of MetricType
MetricTypes ==
    { "views", "likes", "comments", "shares", "clicks", "impressions", "reach",
      "engagement" }

AnalyticsPosts == { 1, 2, 3 }

Platforms == { "telegram" }

\* metrics dictionaries, as the sequences of their items
MetricsInputs ==
    { << <<"views", 2>> >>,
      << <<"views", 1>>, <<"likes", 3>> >>,
      << <<"likes", 1>>, <<"bogus", 1>> >>,
      << <<"bogus", 1>>, <<"views", 3>> >> }

\* lists of post ids to compare; nothing is tracked for post 3
PostIdLists == { << >>, <<1>>, <<1, 2>>, <<2, 1, 2>>, <<3, 2>> }

\* f"{post_id}_{platform}_{metric_type}"
MetricKey(post_id, platform, metric_type) == << post_id, platform, metric_type >>

\* the cache is a dict: the sequence of its items, in insertion order
InCache(cache, key) == \E i \in 1..Len(cache) : cache[i].key = key

IndexOf(cache, key) == CHOOSE i \in 1..Len(cache) : cache[i].key = key

\* number of values in the cache
RECURSIVE Entries(_)
Entries(cache) ==
    IF cache = << >> THEN 0 ELSE Len(Head(cache).values) + Entries(Tail(cache))

\* AnalyticsService.track_metric, as the cache it leaves
TrackMetric(cache, post_id, metric_type, value, platform) ==
    LET key == MetricKey(post_id, platform, metric_type)
        entry == [value |-> value, timestamp |-> now]
    IN  IF ~InCache(cache, key)
        THEN Append(cache, [key |-> key, values |-> << entry >>])
        ELSE LET i == IndexOf(cache, key)
             IN  SubSeq(cache, 1, i - 1)
                    \o << [key |-> key, values |-> Append(cache[i].values, entry)] >>
                    \o SubSeq(cache, i + 1, Len(cache))

\* the loop of update_analytics over metrics.items(): MetricType(name)
\* raises ValueError at the first name that is no metric type
RECURSIVE UpdateLoop(_, _, _, _)
UpdateLoop(cache, post_id, platform, items) ==
    IF items = << >>
    THEN [cache |-> cache, raised |-> FALSE]
    ELSE IF Head(items)[1] \notin MetricTypes
    THEN [cache |-> cache, raised |-> TRUE]
    ELSE UpdateLoop(TrackMetric(cache, post_id, Head(items)[1], Head(items)[2], platform),
                    post_id, platform, Tail(items))

\* AnalyticsService.update_analytics: returns the metrics it recorded, or
\* logs the exception and raises it again
UpdateAnalytics(post_id, platform, metrics) ==
    LET r == UpdateLoop(metrics_cache, post_id, platform, metrics)
    IN  /\ Entries(metrics_cache) + Len(metrics) <= MaxEntries
        /\ request' = [op |-> "update_analytics", post_id |-> post_id,
                       platform |-> platform, metrics |-> metrics]
        /\ metrics_cache' = r.cache
        /\ response' = [status |-> 0, raised |-> r.raised,
                        updated_metrics |-> IF r.raised THEN << >> ELSE metrics]
        /\ UNCHANGED << scheduler_vars, users, telegram >>

\* self._metrics_cache[key][-1]["value"], 0 for a post without values
Latest(cache, post_id, platform, metric_type) ==
    LET key == MetricKey(post_id, platform, metric_type)
    IN  IF InCache(cache, key) /\ cache[IndexOf(cache, key)].values # << >>
        THEN LET values == cache[IndexOf(cache, key)].values
             IN  values[Len(values)].value
        ELSE 0

PostKey(post_id) == [kind |-> "post", id |-> post_id]

AverageKey == [kind |-> "average", id |-> 0]

NoKey == [kind |-> "none", id |-> 0]

\* the comparison dictionary after the loop over post_ids: one item per
\* post id, in the order of first occurrence; values are the integers
\* tracked, written as quotients num / den
RECURSIVE Comparison(_, _, _, _, _)
Comparison(cache, post_ids, platform, metric_type, seen) ==
    IF post_ids = << >> THEN << >>
    ELSE IF Head(post_ids) \in seen
    THEN Comparison(cache, Tail(post_ids), platform, metric_type, seen)
    ELSE << [key |-> PostKey(Head(post_ids)),
             num |-> Latest(cache, Head(post_ids), platform, metric_type),
             den |-> 1] >>
         \o Comparison(cache, Tail(post_ids), platform, metric_type,
                       seen \cup { Head(post_ids) })

RECURSIVE SumNum(_)
SumNum(items) == IF items = << >> THEN 0 ELSE Head(items).num + SumNum(Tail(items))

\* a.value < b.value
ValueLess(a, b) == a.num * b.den < b.num * a.den

\* max() taking the last of several greatest items
LastMax(items) ==
    items[CHOOSE i \in 1..Len(items) :
              /\ \A k \in 1..Len(items) : ~ValueLess(items[i], items[k])
              /\ \A k \in (i + 1)..Len(items) : ValueLess(items[k], items[i])].key

\* max(comparison.items(), key=lambda x: x[1])[0]: the key of the first
\* item no other item is greater than
FirstMax(items) ==
    items[CHOOSE i \in 1..Len(items) :
              /\ \A k \in 1..Len(items) : ~ValueLess(items[i], items[k])
              /\ \A k \in 1..(i - 1) : ValueLess(items[k], items[i])].key

\* the dictionary {}
EmptyDict == [items |-> << >>, best_performer |-> NoKey]

\* AnalyticsService.compare_posts: "average" is in the dictionary when the
\* best performer is taken
ComparePosts(post_ids, platform, metric_type) ==
    LET comparison == Comparison(metrics_cache, post_ids, platform, metric_type, {})
        average == [key |-> AverageKey, num |-> SumNum(comparison),
                    den |-> Len(comparison)]
    IN  /\ request' = [op |-> "compare_posts", post_ids |-> post_ids,
                       platform |-> platform, metric_type |-> metric_type]
        /\ response' =
              [status |-> 0, raised |-> FALSE,
               value |-> IF comparison = << >>
                         THEN EmptyDict
                         ELSE [items |-> comparison \o << average >>,
                               best_performer |-> FirstMax(comparison \o << average >>)]]
        /\ UNCHANGED << scheduler_vars, users, telegram, metrics_cache >>

NextAnalytics ==
    \/ \E p \in AnalyticsPosts, pl \in Platforms, ms \in MetricsInputs :
          UpdateAnalytics(p, pl, ms)
    \/ \E ids \in PostIdLists, pl \in Platforms, mt \in { "views", "likes" } :
          ComparePosts(ids, pl, mt)

SpecAnalytics == Init /\ [][NextAnalytics]_vars

(* ------------------------------- claims -------------------------------- *)

\* jobs of the id the scheduler holds, stored or pending
Count(s, id) == Len(SelectSeq(s, LAMBDA j : j.id = id))

Held(id) == Count(store, id) + Count(pending_jobs, id)

InFlight(id) == { r \in inflight : r.job.id = id }

\* a job's firing has come to its end and the job is neither scheduled nor
\* running any more
Ended(id) ==
    /\ events[id].executed + events[id].missed > 0
    /\ ~Scheduled(id)
    /\ instances[id] = 0

\* Schedule.retry_count: no code writes the column
RetryCount(id) == DefaultRetryCount

\* C1: at-most-one firing in flight per job, and for every job and every
\* due-time a scheduling tick has handled the Publish Sink receives exactly
\* one deliver call (the calls still to come are those of the runs in
\* flight).
C1_ExactlyOneDeliverPerDueTime ==
    \A j \in JobIds :
        /\ instances[j] <= 1
        /\ Cardinality(InFlight(j)) <= 1
        /\ sent[j].calls + Cardinality(InFlight(j))
              = events[j].submitted + events[j].rejected

\* C3: a one-shot job that has been cancelled, or has run to its end, is
\* not moved to Firing by any later tick, as long as it is not registered
\* again.
C3_NoFiringAfterTerminal ==
    [][\A j \in DateJobIds :
          term[j] /\ term'[j] => events'[j].submitted = events[j].submitted]_vars

\* C4: after any sequence of registrations the scheduler holds at most one
\* job per job_id (registering the same (post, instant) twice leaves one job).
C4_OneJobPerJobId == \A id \in JobIds : Held(id) <= 1

\* C5: a one-shot job registered with an instant in the past is fired by
\* the next tick and never dropped as missed.
C5_PastInstantNeverMissed ==
    [][\A j \in DateJobIds :
          late[j] /\ late'[j] => events'[j].missed = events[j].missed]_vars

\* C6: after cancel returned True for a post, no later tick fires a job
\* registered for that post (until the post is registered again).
C6_NoFiringAfterCancel ==
    [][\A p \in Posts :
          cancelled[p] /\ cancelled'[p] =>
              \A j \in JobIds : j.post = p => events'[j].submitted = events[j].submitted]_vars

\* C7: cancel never raises; it returns True exactly when the job its post
\* maps to was held by the scheduler and this call removed it (and the
\* post's entry with it); when it returns False (unknown post, cancelled
\* before, job already run) the scheduler's jobs are what they were.
C7_CancelReturnsWhetherItCancelled ==
    [][\A p \in Posts :
          CancelScheduledPost(p) =>
              LET id == svc_jobs[p]
                  found == id # NoJob /\ Held(id) > 0
              IN  /\ ret'.val \in {"True", "False"}
                  /\ (ret'.val = "True") <=> found
                  /\ ret'.val = "True" =>
                        /\ Count(store', id) + Count(pending_jobs', id) = Held(id) - 1
                        /\ svc_jobs'[p] = NoJob
                  /\ ret'.val = "False" =>
                        /\ store' = store
                        /\ pending_jobs' = pending_jobs]_vars

\* the last call cancelled a post whose job had already run: it returned
\* False
C7_Witness ==
    /\ ret.op = "cancel_scheduled_post"
    /\ ret.val = "False"
    /\ svc_jobs[ret.post] # NoJob
    /\ events[svc_jobs[ret.post]].executed > 0
    /\ ~Scheduled(svc_jobs[ret.post])

\* the arguments no trigger can be built from
BadTriggerArgs(cron_expression, timezone) ==
    \/ Len(cron_expression) # 5
    \/ cron_expression[1] = "60"
    \/ timezone = "Mars/Phobos"

\* C8: schedule_recurring_post with an unparseable cron expression or an
\* unknown timezone name raises, and leaves the scheduler's jobs and the
\* post-to-job mapping as they were.
C8_BadTriggerRaisesAndChangesNothing ==
    [][\A a \in RecurringArgs :
          ScheduleRecurringPost(a[1], a[2], a[3], a[4], a[5]) /\ BadTriggerArgs(a[2], a[5]) =>
              /\ ret'.val \in {"ValueError", "UnknownTimeZoneError"}
              /\ UNCHANGED << store, pending_jobs, svc_jobs >>]_vars

\* the last call was a registration that raised, while the post has a
\* recurring job it could have replaced
C8_Witness ==
    /\ ret.op = "schedule_recurring_post"
    /\ ret.val \in {"ValueError", "UnknownTimeZoneError"}
    /\ svc_jobs[ret.post] = RecurringJobId(ret.post)
    /\ Held(RecurringJobId(ret.post)) = 1

\* C9: a one-shot job none of whose deliver calls succeeded is attempted
\* exactly max_retries + 1 times before it ends.
C9_FailingJobAttemptedMaxRetriesPlusOne ==
    \A j \in DateJobIds :
        Ended(j) /\ sent[j].ok = 0 => events[j].submitted = DefaultMaxRetries + 1

\* C10: a one-shot job that ends executed (Completed) has had k failed
\* deliver calls and then one that succeeded, k + 1 in all, with
\* retry_count = k, for some k <= max_retries.
C10_CompletedAfterKPlusOneDelivers ==
    \A j \in DateJobIds :
        Ended(j) /\ events[j].executed > 0 =>
            \E k \in 0..DefaultMaxRetries :
                /\ sent[j].calls = k + 1
                /\ sent[j].ok = 1
                /\ RetryCount(j) = k

\* the job ids get_scheduled_jobs returns
Listed(id) ==
    /\ ~GetScheduledJobs.raised
    /\ \E e \in GetScheduledJobs.jobs : e.id = id

\* C11: a firing the Publish Sink answers with a Permanent error ends as a
\* failure of the job (the scheduler records the run as failed), and the
\* job is not scheduled for a retry.
C11_PermanentErrorFailsTheJob ==
    [][\A r \in inflight :
          RunJob(r, "permanent") /\ ~Missed(r, now) /\ r.job.kind = "date" =>
              /\ events'[r.job.id].error = events[r.job.id].error + 1
              /\ events'[r.job.id].executed = events[r.job.id].executed]_vars

\* C13: each firing hands the Publish Sink the payload given at
\* registration: the request goes to the registered channel with the
\* registered content as its text.
C13_FiringDeliversRegisteredPayload ==
    [][\A r \in inflight, result \in SinkResults :
          RunJob(r, result) /\ ~Missed(r, now) =>
              /\ sent'[r.job.id].last.chat_id = r.job.chat_id
              /\ sent'[r.job.id].last.text = r.job.content]_vars

\* C14: each firing attempt issues exactly one deliver call, whatever the
\* number of media references of its payload.
C14_OneDeliverCallPerAttempt ==
    [][\A r \in inflight, result \in SinkResults :
          RunJob(r, result) /\ ~Missed(r, now) =>
              sent'[r.job.id].calls = sent[r.job.id].calls + 1]_vars

\* C16: a one-shot job whose firing ended without a successful delivery
\* (Failed) stays in the list get_scheduled_jobs returns, while the
\* scheduler runs, until the caller cancels it.
C16_FailedJobStaysListed ==
    \A j \in DateJobIds :
        /\ state = "running"
        /\ events[j].executed + events[j].error > 0
        /\ sent[j].ok = 0
        /\ InFlight(j) = {}
        /\ ~cancelled[j.post]
        => Listed(j)

\* C18: a run is counted as executed successfully only when a deliver call
\* of it succeeded: no job has more successful runs than successful
\* deliveries.
C18_NoSuccessWithoutDelivery ==
    \A j \in JobIds : events[j].executed <= sent[j].ok

\* C19: after a firing of a one-shot job the sink answered with a Transient
\* failure, the job is Pending again with a due instant later than now.
C19_TransientFailureIsRescheduled ==
    [][\A r \in inflight :
          RunJob(r, "transient") /\ ~Missed(r, now) /\ r.job.kind = "date" =>
              \E i \in 1..Len(store') :
                  /\ store'[i].id = r.job.id
                  /\ store'[i].next_run_time > now]_vars

\* C20: cancel called for a post whose job is Firing (a run of it is in
\* flight) is honoured: it returns True and the job is Cancelled.
C20_CancelWhileFiringIsHonoured ==
    [][\A p \in Posts :
          /\ CancelScheduledPost(p)
          /\ svc_jobs[p] # NoJob
          /\ InFlight(svc_jobs[p]) # {}
          => /\ ret'.val = "True"
             /\ svc_jobs'[p] = NoJob
             /\ inflight' = inflight]_vars

\* C15: every job the scheduler holds before the process restarts is held,
\* under the same job_id and with the same trigger and payload, after it.
C15_JobsSurviveRestart ==
    [][Restart =>
          \A i \in 1..Len(store) :
              \E k \in 1..Len(store') : store'[k] = store[i]]_vars

\* the cron occurrences of a job from instant a up to instant b
Occurrences(job, a, b) ==
    { m * TicksPerMinute : m \in { n \in 0..MaxMinute :
        /\ CronMatches(job.cron, job.tz, n)
        /\ a <= n * TicksPerMinute
        /\ n * TicksPerMinute <= b } }

\* C12: a tick of a scheduler whose executor takes work leaves every
\* recurring job in the store, due at its next cron occurrence after now,
\* and has fired it once for every occurrence that has come due.
C12_RecurringFiresAtEveryOccurrence ==
    [][ProcessJobs /\ ~pool_shutdown =>
          \A i \in 1..Len(store) :
              store[i].kind = "cron" /\ store[i].next_run_time <= now =>
                  /\ \E k \in 1..Len(store') :
                        /\ store'[k].id = store[i].id
                        /\ store'[k].next_run_time > now
                        /\ Occurrences(store[i], now + 1, store'[k].next_run_time - 1) = {}
                  /\ events'[store[i].id].submitted
                        = events[store[i].id].submitted
                            + Cardinality(Occurrences(store[i], store[i].next_run_time, now))]_vars

\* C17: every due instant of the recurring job with cron "0 9 * * 1" in
\* America/New_York is 09:00 local time on a Monday.
C17_MondayNineLocal ==
    [][CronWake
          /\ store[1].cron = <<"0", "9", "*", "*", "1">>
          /\ store[1].tz = "America/New_York"
          => LET w == WallClock(now' \div TicksPerMinute, "America/New_York")
             IN  /\ w.hour = 9
                 /\ w.minute = 0
                 /\ w.day_of_week = 0]_vars

\* C21: a process restart leaves no job that was Firing without a
\* follow-up: each job with a run in flight is either held again by the
\* scheduler (Pending for its retry) or recorded as failed.
C21_FiringJobRecoveredOnRestart ==
    [][Restart =>
          \A r \in inflight :
              \/ \E i \in 1..Len(store') : store'[i].id = r.job.id
              \/ \E i \in 1..Len(pending_jobs') : pending_jobs'[i].id = r.job.id
              \/ events'[r.job.id].error = events[r.job.id].error + 1]_vars

\* C22: a tick handles every due job, each on its own, whatever happens to
\* the others; and a firing the sink answered with an error is recorded as
\* a failure of that job, the other runs in flight being left alone.
C22_FailureIsolatedAndRecorded ==
    [][/\ ProcessJobs =>
             \A i \in 1..Len(DueJobs(store, now)) :
                 LET j == DueJobs(store, now)[i].id
                 IN  events'[j].submitted + events'[j].rejected
                        = events[j].submitted + events[j].rejected + 1
       /\ \A r \in inflight, result \in {"transient", "permanent"} :
             RunJob(r, result) /\ ~Missed(r, now) =>
                 /\ inflight' = inflight \ { r }
                 /\ events'[r.job.id].error = events[r.job.id].error + 1]_vars

C25_JobsMapAgreesWithScheduler ==
    /\ \A p \in Posts : svc_jobs[p] # NoJob => Scheduled(svc_jobs[p])
    /\ \A id \in JobIds : Scheduled(id) => svc_jobs[id.post] = id

\* C26: when cancel_scheduled_post returns False, _jobs and the scheduler's
\* jobs, stored, pending and running, are what they were before the call.
C26_CancelFalseChangesNothing ==
    [][\A p \in Posts :
          CancelScheduledPost(p) /\ ret'.val = "False" =>
              /\ svc_jobs' = svc_jobs
              /\ store' = store
              /\ pending_jobs' = pending_jobs
              /\ inflight' = inflight
              /\ state' = state]_vars

\* the last call was a cancel that returned False because remove_job did not
\* find the post's job, while the scheduler holds another job
C26_Witness ==
    /\ ret.op = "cancel_scheduled_post"
    /\ ret.val = "False"
    /\ svc_jobs[ret.post] # NoJob
    /\ ~Scheduled(svc_jobs[ret.post])
    /\ Len(store) + Len(pending_jobs) > 0

\* C30: start and shutdown never raise and never change _jobs; after start
\* the scheduler runs and after shutdown it is stopped; start on a running
\* scheduler and shutdown on a stopped one leave the scheduler as it was.
C30_StartShutdownIdempotent ==
    [][/\ Start =>
             /\ ret'.val = "none"
             /\ state' = "running"
             /\ svc_jobs' = svc_jobs
             /\ state = "running" =>
                   UNCHANGED << store, pending_jobs, pool_shutdown, instances, inflight >>
       /\ Shutdown =>
             /\ ret'.val = "none"
             /\ state' = "stopped"
             /\ svc_jobs' = svc_jobs
             /\ state = "stopped" =>
                   UNCHANGED << store, pending_jobs, pool_shutdown, instances, inflight >>]_vars

\* the second call was a shutdown of a scheduler that had never been
\* started, one job pending
C30_Witness ==
    /\ ret.op = "shutdown"
    /\ calls = 2
    /\ state = "stopped"
    /\ ~pool_shutdown
    /\ Len(pending_jobs) = 1
    /\ svc_jobs[pending_jobs[1].post_id] = pending_jobs[1].id

\* C24: whenever get_current_admin lets a request through, the user it
\* returns is an administrator in the users table.
C24_AdminDependencyAdmitsOnlyAdmins ==
    request.op = "get_current_admin" /\ response.status = 200 =>
        users[response.returned].is_admin

\* C27: the endpoint answers success (status 200, success true) only when
\* the Telegram handler returned True, and answers 500 without success
\* whenever the handler was called and did not return True.
C27_SuccessOnlyIfHandlerReturnedTrue ==
    request.op = "publish_content" =>
        /\ response.success <=> response.status = 200
        /\ response.success => telegram # NoTelegram /\ telegram.returned
        /\ telegram # NoTelegram /\ ~telegram.returned =>
              response.status = 500 /\ ~response.success

\* a photo was posted, the call to the Telegram API raised, the handler
\* returned False and the endpoint answered 500
C27_Witness ==
    /\ request.op = "publish_content"
    /\ telegram.data.method = "sendPhoto"
    /\ telegram.answer.raised
    /\ ~telegram.returned
    /\ response.status = 500

\* C28: an update_analytics call whose dictionary holds a name that is no
\* MetricType raises and leaves the metrics cache as it was.
C28_UpdateAnalyticsAllOrNothing ==
    [][\A p \in AnalyticsPosts, pl \in Platforms, ms \in MetricsInputs :
          /\ UpdateAnalytics(p, pl, ms)
          /\ \E i \in 1..Len(ms) : ms[i][1] \notin MetricTypes
          => /\ response'.raised
             /\ metrics_cache' = metrics_cache]_vars

\* C29: for a non-empty list, best_performer is the key of one of the given
\* posts, whose latest value (0 without one) no given post exceeds, and never
\* "average"; for the empty list the result is {}.  The values are the
\* integers of the signature.
C29_BestPerformerIsAGivenPost ==
    request.op = "compare_posts" =>
        IF request.post_ids = << >>
        THEN response.value = EmptyDict
        ELSE /\ response.value.best_performer # AverageKey
             /\ \E i \in 1..Len(request.post_ids) :
                   /\ response.value.best_performer = PostKey(request.post_ids[i])
                   /\ \A k \in 1..Len(request.post_ids) :
                         Latest(metrics_cache, request.post_ids[k],
                                request.platform, request.metric_type)
                            <= Latest(metrics_cache, request.post_ids[i],
                                      request.platform, request.metric_type)

\* two posts with the same latest value, which then is the average too,
\* were compared
C29_Witness ==
    /\ request.op = "compare_posts"
    /\ Len(request.post_ids) >= 2
    /\ request.post_ids[1] # request.post_ids[2]
    /\ Latest(metrics_cache, request.post_ids[1], request.platform,
              request.metric_type) > 0
    /\ \A k \in 1..Len(request.post_ids) :
          Latest(metrics_cache, request.post_ids[k], request.platform,
                 request.metric_type)
             = Latest(metrics_cache, request.post_ids[1], request.platform,
                      request.metric_type)
    /\ response.value.best_performer = PostKey(request.post_ids[1])

====
